---- MODULE Spec2Model ----
(***************************************************************************)
(* Model of task-3/src/check_web.py: the Lambda handler that probes an     *)
(* nginx URL and, when the probe is unhealthy, fetches credentials from    *)
(* Secrets Manager and posts an alert to Slack or Telegram.                *)
(*                                                                         *)
(* One invocation is a sequential program that blocks at three network     *)
(* calls.  The model's actions are the segments of code between those      *)
(* suspension points; what the remote side answers is the action's input.  *)
(* Strings built with f-strings are sequences of pieces, so "the text      *)
(* contains the value v" is "v is one of the pieces".                      *)
(***************************************************************************)
EXTENDS Integers, Sequences, FiniteSets, TLC

VARIABLES
    env,                 \* os.environ: TARGET_URL, NOTIFICATION_TYPE, SECRET_NAME
    invocation,          \* number of invocations started so far
    pc,                  \* position of the running invocation
    target_url,          \* handler locals
    notification_type,
    secret_name,
    is_healthy,
    notification_config,
    attempt,             \* urllib3 attempts made for the probe GET
    call_timeout,        \* timeout of the call in flight: {} is None, {n} is n seconds
    request_url,         \* URL (pieces) of the HTTP request in flight
    result,              \* what handler returned
    log,                 \* lines printed by this invocation
    calls,               \* per-invocation count of external and internal calls
    hist                 \* per-invocation history: what has returned so far

vars == <<env, invocation, pc, target_url, notification_type, secret_name,
          is_healthy, notification_config, attempt, call_timeout, request_url,
          result, log, calls, hist>>

----------------------------------------------------------------------------
\* Bounds of the model

MaxInvocations == 2

\* Program constants

\* check_nginx_health(url, timeout=10)
DefaultTimeout == 10
\* urllib3.Retry(total=2, backoff_factor=1)
RetryTotal == 2
\* boto3.client('secretsmanager') with no Config: botocore's default
\* connect and read timeouts, in seconds
BotoDefaultTimeout == 60

----------------------------------------------------------------------------
\* Values

None == "<None>"
Now == "<utcnow>"

Url == "http://nginx.example/"
SecretId == "nginx-monitor/notify"
WebhookUrl == "https://hooks.slack.example/services/T0/B0/XXXX"
BotToken == "123456:AAF-bot-token"
ChatId == "-1001234"

CredentialValues == {WebhookUrl, BotToken, ChatId}

EnvTargetUrls == {None, "", Url}
EnvSecretNames == {None, "", SecretId}
EnvNotificationTypes == {None, "slack", "telegram", "Telegram", "email"}

ProbeStatuses == {199, 200, 204, 299, 300, 404, 503}
PostStatuses == {200, 201, 204, 400, 503}

\* Response bodies of the probed server, as word sequences
ProbeBodies ==
    { <<"Welcome", "to", "nginx">>, <<"NGINX">>, <<"WELCOME">>, <<"It", "works">>, <<>> }

\* str.lower() on the words and type names the model uses
Lower(s) ==
    CASE s = "Welcome" -> "welcome"
      [] s = "WELCOME" -> "welcome"
      [] s = "NGINX" -> "nginx"
      [] s = "It" -> "it"
      [] s = "Telegram" -> "telegram"
      [] OTHER -> s

\* `needle in body.lower()`, for a body made of words
Contains(body, needle) == \E i \in 1..Len(body) : Lower(body[i]) = needle

\* Python truthiness of an Optional[str]: `not v`
Falsy(v) == v = None \/ v = ""

----------------------------------------------------------------------------
\* JSON text of a secret, as a token sequence, and json.loads on it

Punct(c) == [t |-> "punct", v |-> c]
Str(v) == [t |-> "str", v |-> v]

\* The text of a JSON object holding the given <<key, value>> pairs in order
RECURSIVE PairTokens(_)
PairTokens(pairs) ==
    IF pairs = <<>> THEN <<>>
    ELSE <<Str(pairs[1][1]), Punct(":"), Str(pairs[1][2])>>
         \o (IF Len(pairs) > 1 THEN <<Punct(",")>> ELSE <<>>)
         \o PairTokens(Tail(pairs))

ObjectText(pairs) == <<Punct("{")>> \o PairTokens(pairs) \o <<Punct("}")>>

\* A key is absent (None), present and empty, or present with its value
FieldChoices(key, value) == { <<>>, << <<key, "">> >>, << <<key, value>> >> }

SecretPairs ==
    { a \o b \o c : a \in FieldChoices("slack_webhook_url", WebhookUrl),
                    b \in FieldChoices("telegram_bot_token", BotToken),
                    c \in FieldChoices("telegram_chat_id", ChatId) }

WellFormedSecrets == { ObjectText(p) : p \in SecretPairs }

\* Valid JSON that is not an object
NonObjectSecrets == { <<Punct("["), Punct("]")>>, <<Punct("null")>>, <<Str(WebhookUrl)>> }

\* Text json.loads rejects: empty, truncated, bare word, trailing comma, missing colon
MalformedSecrets ==
    { <<>>,
      <<Punct("{"), Str("slack_webhook_url"), Punct(":"), Str(WebhookUrl)>>,
      <<Punct("hooks.slack.example")>>,
      <<Punct("{"), Str("telegram_bot_token"), Punct(":"), Str(BotToken), Punct(","), Punct("}")>>,
      <<Punct("{"), Str("telegram_chat_id"), Str(ChatId), Punct("}")>> }

SecretStrings == WellFormedSecrets \cup NonObjectSecrets \cup MalformedSecrets

JsonError == [ok |-> FALSE, kind |-> "error", fields |-> {}]
JsonValue(kind, fields) == [ok |-> TRUE, kind |-> kind, fields |-> fields]

\* dict[key] = value: a later pair replaces an earlier one with the same key
DictSet(fields, key, value) == { p \in fields : p[1] # key } \cup { <<key, value>> }

\* Members of an object from position i, after "{" or ","
RECURSIVE ParseMembers(_, _, _)
ParseMembers(toks, i, fields) ==
    IF i + 3 > Len(toks) THEN JsonError
    ELSE IF toks[i].t # "str" \/ toks[i + 1] # Punct(":") \/ toks[i + 2].t # "str"
    THEN JsonError
    ELSE LET acc == DictSet(fields, toks[i].v, toks[i + 2].v)
         IN  IF toks[i + 3] = Punct("}")
             THEN IF i + 3 = Len(toks) THEN JsonValue("dict", acc) ELSE JsonError
             ELSE IF toks[i + 3] = Punct(",")
             THEN ParseMembers(toks, i + 4, acc)
             ELSE JsonError

json_loads(toks) ==
    IF toks = <<>> THEN JsonError
    ELSE IF toks[1].t = "str"
    THEN IF Len(toks) = 1 THEN JsonValue("str", {}) ELSE JsonError
    ELSE IF toks = <<Punct("null")>> THEN JsonValue("null", {})
    ELSE IF toks = <<Punct("["), Punct("]")>> THEN JsonValue("list", {})
    ELSE IF toks = <<Punct("{"), Punct("}")>> THEN JsonValue("dict", {})
    ELSE IF toks[1] = Punct("{") THEN ParseMembers(toks, 2, {})
    ELSE JsonError

\* config.get(key) on a dict
DictGet(config, key) ==
    IF \E p \in config.fields : p[1] = key
    THEN (CHOOSE p \in config.fields : p[1] = key)[2]
    ELSE None

NoConfig == [kind |-> "unbound", fields |-> {}]

----------------------------------------------------------------------------
\* Exceptions: a type and str(e) as pieces

NoExc == [type |-> "none", text |-> <<>>]
Exc(type, text) == [type |-> type, text |-> text]

ValueError(msg) == Exc("ValueError", <<msg>>)

\* urllib3 gives up on a request: its text names the request's URL
MaxRetryError(url, cause) ==
    Exc("MaxRetryError",
        <<"Max retries exceeded with url: ">> \o url \o <<" (Caused by ", cause, ")">>)

\* The connection broke after the request was sent: the text names no URL
ProtocolError == Exc("ProtocolError", <<"Connection aborted.">>)

ReadTimeoutError == Exc("ReadTimeoutError", <<"Read timed out.">>)

\* Secrets Manager errors: the text names the operation, never the secret's value
ClientError(code) ==
    Exc("ClientError",
        <<"An error occurred (", code, ") when calling the GetSecretValue operation">>)

KeyError(key) == Exc("KeyError", <<"'", key, "'">>)
JSONDecodeError == Exc("JSONDecodeError", <<"Expecting value: line 1 column 1 (char 0)">>)
AttributeError(kind) ==
    Exc("AttributeError", <<"'", kind, "' object has no attribute 'get'">>)

ProbeFailureCauses == {"NewConnectionError", "SSLError"}
SecretErrorCodes == {"ResourceNotFoundException", "AccessDeniedException"}
PostFailures(url) == { MaxRetryError(url, "NewConnectionError"), ProtocolError }

\* What GetSecretValue answers: a text secret, or a binary one (no SecretString)
SecretResponses ==
    { [has_string |-> TRUE, SecretString |-> t] : t \in SecretStrings }
    \cup { [has_string |-> FALSE, SecretString |-> <<>>] }

----------------------------------------------------------------------------
\* How a function, or the part of it up to a blocking call, ends

Return(value, lines) ==
    [kind |-> "return", value |-> value, exc |-> NoExc, url |-> <<>>, lines |-> lines]
Raise(e, lines) ==
    [kind |-> "raise", value |-> FALSE, exc |-> e, url |-> <<>>, lines |-> lines]
Post(url, lines) ==
    [kind |-> "post", value |-> FALSE, exc |-> NoExc, url |-> url, lines |-> lines]

----------------------------------------------------------------------------
\* handler: configuration and results

EnvGet(name, default) == IF env[name] = None THEN default ELSE env[name]

Get_target_url == EnvGet("TARGET_URL", None)

\* Mutant: the default channel is telegram
Get_notification_type_M == EnvGet("NOTIFICATION_TYPE", "telegram")

Get_notification_type == EnvGet("NOTIFICATION_TYPE", "slack")
Get_secret_name == EnvGet("SECRET_NAME", None)


\* Mutant: SECRET_NAME is not checked
MissingConfig_M(url, name) ==
    IF Falsy(url) THEN ValueError("TARGET_URL environment variable is required")
    ELSE NoExc

\* The two `if not ...: raise ValueError` checks
MissingConfig(url, name) ==
    IF Falsy(url) THEN ValueError("TARGET_URL environment variable is required")
    ELSE IF Falsy(name) THEN ValueError("SECRET_NAME environment variable is required")
    ELSE NoExc

NoResult == [statusCode |-> 0, body |-> [status |-> "none"]]
Escaped(e) == [statusCode |-> 0, body |-> [status |-> "exception", type |-> e.type]]

HealthyResult(url) ==
    [statusCode |-> 200,
     body |-> [status |-> "healthy", url |-> url, timestamp |-> Now]]

UnhealthyResult(url, sent) ==
    [statusCode |-> 500,
     body |-> [status |-> "unhealthy", url |-> url, notification_sent |-> sent,
               timestamp |-> Now]]

ErrorResult(e) ==
    [statusCode |-> 500,
     body |-> [status |-> "error", error |-> e.text, timestamp |-> Now]]


\* Mutant: handler has no try block, the exception leaves it
handler_except_M(e) == [result |-> Escaped(e), lines |-> <<>>]

\* `except Exception as e` of handler
handler_except(e) ==
    [result |-> ErrorResult(e), lines |-> << <<"Error in handler: ">> \o e.text >>]


\* Mutant: the alert branch is taken whatever the probe says
NeedsAlert_M(healthy) == TRUE

\* `if is_healthy: ... else:` of handler: whether the alert branch is taken
NeedsAlert(healthy) == ~healthy

----------------------------------------------------------------------------
\* check_nginx_health

check_nginx_health_request(url) ==
    << <<"Making HTTP request to ", url, " with timeout ", ToString(DefaultTimeout), "s">> >>


\* Mutant: a 2xx response without nginx content is unhealthy
check_nginx_health_response_M(status, body) ==
    LET seen == <<"Response status: ", ToString(status)>>
    IN  IF 200 <= status /\ status < 300
        THEN IF Contains(body, "nginx") \/ Contains(body, "welcome")
             THEN Return(TRUE, <<seen, <<"Response contains expected nginx content">> >>)
             ELSE Return(FALSE, <<seen, <<"Response status OK but no nginx content detected">> >>)
        ELSE Return(FALSE, <<seen, <<"Unhealthy status code: ", ToString(status)>> >>)

check_nginx_health_response(status, body) ==
    LET seen == <<"Response status: ", ToString(status)>>
    IN  IF 200 <= status /\ status < 300
        THEN IF Contains(body, "nginx") \/ Contains(body, "welcome")
             THEN Return(TRUE, <<seen, <<"Response contains expected nginx content">> >>)
             ELSE Return(TRUE, <<seen, <<"Response status OK but no nginx content detected">> >>)
        ELSE Return(FALSE, <<seen, <<"Unhealthy status code: ", ToString(status)>> >>)

check_nginx_health_except(e) ==
    Return(FALSE, << <<"Health check failed: ">> \o e.text >>)

----------------------------------------------------------------------------
\* get_secret

get_secret_request(name) == << <<"Retrieving secret: ", name>> >>


\* Mutant: get_secret swallows the exception and returns an empty dict
get_secret_except_M(e) ==
    Return([kind |-> "dict", fields |-> {}], << <<"Error retrieving secret: ">> \o e.text >>)

get_secret_except(e) == Raise(e, << <<"Error retrieving secret: ">> \o e.text >>)

get_secret_response(resp) ==
    IF ~resp.has_string THEN get_secret_except(KeyError("SecretString"))
    ELSE LET v == json_loads(resp.SecretString)
         IN  IF v.ok THEN Return([kind |-> v.kind, fields |-> v.fields], <<>>)
             ELSE get_secret_except(JSONDecodeError)

----------------------------------------------------------------------------
\* send_slack_notification

\* http.request('POST', ...) passes no timeout and http = PoolManager() sets
\* none: urllib3 then waits without limit (timeout None)
SlackTimeout == {}

send_slack_notification(config) ==
    IF config.kind # "dict" THEN Raise(AttributeError(config.kind), <<>>)
    ELSE LET webhook_url == DictGet(config, "slack_webhook_url")
         IN  IF Falsy(webhook_url)
             THEN Return(FALSE, << <<"Slack webhook URL not found in configuration">> >>)
             ELSE Post(<<webhook_url>>, <<>>)


\* Mutant: any 2xx counts as sent
send_slack_response_M(status) ==
    IF 200 <= status /\ status < 300
    THEN Return(TRUE, << <<"Slack notification sent successfully">> >>)
    ELSE Return(FALSE, << <<"Slack notification failed: ", ToString(status)>> >>)

send_slack_response(status) ==
    IF status = 200
    THEN Return(TRUE, << <<"Slack notification sent successfully">> >>)
    ELSE Return(FALSE, << <<"Slack notification failed: ", ToString(status)>> >>)

send_slack_except(e) ==
    Return(FALSE, << <<"Error sending Slack notification: ">> \o e.text >>)

----------------------------------------------------------------------------
\* send_telegram_notification

\* http.request('POST', ...) passes no timeout either
TelegramTimeout == {}


\* Mutant: the POST is skipped only when both fields are missing
send_telegram_notification_M(config) ==
    IF config.kind # "dict" THEN Raise(AttributeError(config.kind), <<>>)
    ELSE LET bot_token == DictGet(config, "telegram_bot_token")
             chat_id == DictGet(config, "telegram_chat_id")
         IN  IF Falsy(bot_token) /\ Falsy(chat_id)
             THEN Return(FALSE,
                         << <<"Telegram bot token or chat ID not found in configuration">> >>)
             ELSE Post(<<"https://api.telegram.org/bot", bot_token, "/sendMessage">>, <<>>)

send_telegram_notification(config) ==
    IF config.kind # "dict" THEN Raise(AttributeError(config.kind), <<>>)
    ELSE LET bot_token == DictGet(config, "telegram_bot_token")
             chat_id == DictGet(config, "telegram_chat_id")
         IN  IF Falsy(bot_token) \/ Falsy(chat_id)
             THEN Return(FALSE,
                         << <<"Telegram bot token or chat ID not found in configuration">> >>)
             ELSE Post(<<"https://api.telegram.org/bot", bot_token, "/sendMessage">>, <<>>)

send_telegram_response(status) ==
    IF status = 200
    THEN Return(TRUE, << <<"Telegram notification sent successfully">> >>)
    ELSE Return(FALSE, << <<"Telegram notification failed: ", ToString(status)>>,
                          <<"Response: ", "<response body>">> >>)

send_telegram_except(e) ==
    Return(FALSE, << <<"Error sending Telegram notification: ">> \o e.text >>)

----------------------------------------------------------------------------
\* send_notification

\* The branch send_notification takes
Channel(type) ==
    IF Lower(type) = "slack" THEN "slack"
    ELSE IF Lower(type) = "telegram" THEN "telegram"
    ELSE "unknown"

send_notification(type, config) ==
    LET callee == Channel(type)
        inner == IF callee = "slack" THEN send_slack_notification(config)
                 ELSE IF callee = "telegram" THEN send_telegram_notification(config)
                 ELSE Return(FALSE, << <<"Unknown notification type: ", type>> >>)
    IN  [callee |-> callee,
         out |-> IF inner.kind = "raise"
                 THEN Return(FALSE, inner.lines
                                    \o << <<"Error sending notification: ">> \o inner.exc.text >>)
                 ELSE inner]

----------------------------------------------------------------------------
\* State

NoCalls ==
    [probe_get |-> 0, get_secret |-> 0, send_notification |-> 0,
     send_slack |-> 0, send_telegram |-> 0, post |-> 0]

NoHist ==
    [probe_returned |-> FALSE,    \* check_nginx_health returned a value
     probe_raised |-> FALSE,      \* check_nginx_health let an exception out
     probe_response |-> {},       \* status of the response the GET yielded
     probe_body |-> <<>>,
     secret_answer |-> "none",    \* what the secret store answered
     secret_returned |-> FALSE,   \* get_secret returned a value
     secret_raised |-> FALSE,     \* get_secret raised
     channel |-> "none",          \* notifier that send_notification called
     post_response |-> {},        \* status of the response the POST yielded
     post_failed |-> FALSE]       \* the POST raised

Init ==
    /\ \E t \in EnvTargetUrls, n \in EnvNotificationTypes, s \in EnvSecretNames :
           env = [TARGET_URL |-> t, NOTIFICATION_TYPE |-> n, SECRET_NAME |-> s]
    /\ invocation = 0
    /\ pc = "idle"
    /\ target_url = None
    /\ notification_type = None
    /\ secret_name = None
    /\ is_healthy = FALSE
    /\ notification_config = NoConfig
    /\ attempt = 0
    /\ call_timeout = {}
    /\ request_url = <<>>
    /\ result = NoResult
    /\ log = <<>>
    /\ calls = NoCalls
    /\ hist = NoHist

----------------------------------------------------------------------------
\* Steps of an invocation

WaitPcs == {"probe_wait", "secret_wait", "post_wait"}

\* handler returns res, having printed lines
Finish(res, lines) ==
    /\ result' = res
    /\ log' = log \o lines
    /\ pc' = "done"
    /\ call_timeout' = {}
    /\ request_url' = <<>>

\* An exception reaches handler's try block
HandlerRaises(e, lines) ==
    LET caught == handler_except(e)
    IN  Finish(caught.result, lines \o caught.lines)

\* handler from its first line to the probe's GET
Invoke ==
    /\ pc \in {"idle", "done"}
    /\ invocation < MaxInvocations
    /\ invocation' = invocation + 1
    /\ LET url == Get_target_url
           type == Get_notification_type
           name == Get_secret_name
           missing == MissingConfig(url, name)
           started == << <<"Starting nginx health check at ", Now>> >>
       IN  /\ target_url' = url
           /\ notification_type' = type
           /\ secret_name' = name
           /\ is_healthy' = FALSE
           /\ notification_config' = NoConfig
           /\ hist' = NoHist
           /\ IF missing # NoExc
              THEN /\ result' = handler_except(missing).result
                   /\ log' = started \o handler_except(missing).lines
                   /\ pc' = "done"
                   /\ attempt' = 0
                   /\ call_timeout' = {}
                   /\ request_url' = <<>>
                   /\ calls' = NoCalls
              ELSE /\ result' = NoResult
                   /\ log' = started
                             \o << <<"Checking URL: ", url>>, <<"Notification type: ", type>> >>
                             \o check_nginx_health_request(url)
                   /\ pc' = "probe_wait"
                   /\ attempt' = 1
                   /\ call_timeout' = {DefaultTimeout}
                   /\ request_url' = <<url>>
                   /\ calls' = [NoCalls EXCEPT !.probe_get = 1]
    /\ UNCHANGED env

\* handler after check_nginx_health ended with out
AfterProbe(out, h) ==
    IF out.kind = "raise"
    THEN /\ hist' = [h EXCEPT !.probe_raised = TRUE]
         /\ HandlerRaises(out.exc, out.lines)
         /\ UNCHANGED <<is_healthy, calls>>
    ELSE /\ hist' = [h EXCEPT !.probe_returned = TRUE]
         /\ is_healthy' = out.value
         /\ IF NeedsAlert(out.value)
            THEN /\ log' = log \o out.lines
                           \o << <<"Nginx is unhealthy - sending notification">> >>
                           \o get_secret_request(secret_name)
                 /\ calls' = [calls EXCEPT !.get_secret = @ + 1]
                 /\ pc' = "secret_wait"
                 /\ call_timeout' = {BotoDefaultTimeout}
                 /\ request_url' = <<secret_name>>
                 /\ UNCHANGED result
            ELSE /\ Finish(HealthyResult(target_url), out.lines \o << <<"Nginx is healthy">> >>)
                 /\ UNCHANGED calls

\* The GET yields a response
ProbeResponse ==
    /\ pc = "probe_wait"
    /\ \E status \in ProbeStatuses, body \in ProbeBodies :
           AfterProbe(check_nginx_health_response(status, body),
                      [hist EXCEPT !.probe_response = {status}, !.probe_body = body])
    /\ UNCHANGED <<env, invocation, target_url, notification_type, secret_name,
                   notification_config, attempt>>

\* An attempt of the GET fails: urllib3 retries RetryTotal times, then gives up
ProbeAttemptFailed(cause) ==
    /\ pc = "probe_wait"
    /\ IF attempt <= RetryTotal
       THEN /\ attempt' = attempt + 1
            /\ calls' = [calls EXCEPT !.probe_get = @ + 1]
            /\ UNCHANGED <<pc, is_healthy, call_timeout, request_url, result, log, hist>>
       ELSE /\ AfterProbe(check_nginx_health_except(MaxRetryError(request_url, cause)), hist)
            /\ UNCHANGED attempt
    /\ UNCHANGED <<env, invocation, target_url, notification_type, secret_name,
                   notification_config>>

ProbeTransportError == \E cause \in ProbeFailureCauses : ProbeAttemptFailed(cause)

\* handler after get_secret ended with out: send_notification up to its POST
AfterSecret(out, h) ==
    IF out.kind = "raise"
    THEN /\ hist' = [h EXCEPT !.secret_raised = TRUE]
         /\ HandlerRaises(out.exc, out.lines)
         /\ UNCHANGED <<notification_config, calls>>
    ELSE LET sn == send_notification(notification_type, out.value)
         IN  /\ notification_config' = out.value
             /\ hist' = [h EXCEPT !.secret_returned = TRUE, !.channel = sn.callee]
             /\ calls' = [calls EXCEPT
                            !.send_notification = @ + 1,
                            !.send_slack = @ + (IF sn.callee = "slack" THEN 1 ELSE 0),
                            !.send_telegram = @ + (IF sn.callee = "telegram" THEN 1 ELSE 0),
                            !.post = @ + (IF sn.out.kind = "post" THEN 1 ELSE 0)]
             /\ IF sn.out.kind = "post"
                THEN /\ pc' = "post_wait"
                     /\ call_timeout' = (IF sn.callee = "slack" THEN SlackTimeout
                                         ELSE TelegramTimeout)
                     /\ request_url' = sn.out.url
                     /\ log' = log \o out.lines \o sn.out.lines
                     /\ UNCHANGED result
                ELSE Finish(UnhealthyResult(target_url, sn.out.value),
                            out.lines \o sn.out.lines)

SecretUnchanged ==
    UNCHANGED <<env, invocation, target_url, notification_type, secret_name,
                is_healthy, attempt>>

\* get_secret_value answers
SecretResponse ==
    /\ pc = "secret_wait"
    /\ \E resp \in SecretResponses :
           AfterSecret(get_secret_response(resp),
                       [hist EXCEPT !.secret_answer =
                            IF ~resp.has_string THEN "binary"
                            ELSE IF resp.SecretString \in MalformedSecrets THEN "malformed"
                            ELSE "json"])
    /\ SecretUnchanged

SecretFailed(e) ==
    /\ pc = "secret_wait"
    /\ AfterSecret(get_secret_except(e), [hist EXCEPT !.secret_answer = e.type])
    /\ SecretUnchanged

\* get_secret_value raises a service error
SecretError == \E code \in SecretErrorCodes : SecretFailed(ClientError(code))

\* handler after the notifier's POST ended with out
AfterPost(out, h) ==
    /\ hist' = h
    /\ Finish(UnhealthyResult(target_url, out.value), out.lines)
    /\ UNCHANGED <<env, invocation, target_url, notification_type, secret_name,
                   is_healthy, notification_config, attempt, calls>>

\* The POST yields a response
PostResponse ==
    /\ pc = "post_wait"
    /\ \E status \in PostStatuses :
           AfterPost(IF hist.channel = "slack" THEN send_slack_response(status)
                     ELSE send_telegram_response(status),
                     [hist EXCEPT !.post_response = {status}])

PostFailed(e) ==
    /\ pc = "post_wait"
    /\ AfterPost(IF hist.channel = "slack" THEN send_slack_except(e)
                 ELSE send_telegram_except(e),
                 [hist EXCEPT !.post_failed = TRUE])

\* The POST raises a transport exception
PostTransportError == \E e \in PostFailures(request_url) : PostFailed(e)

\* The timeout of the call in flight, if it has one, expires
TimeoutExpires ==
    /\ pc \in WaitPcs
    /\ call_timeout # {}
    /\ CASE pc = "probe_wait" -> ProbeAttemptFailed("ReadTimeoutError")
         [] pc = "secret_wait" -> SecretFailed(ReadTimeoutError)
         [] pc = "post_wait" -> PostFailed(ReadTimeoutError)

Next ==
    \/ Invoke
    \/ ProbeResponse
    \/ ProbeTransportError
    \/ SecretResponse
    \/ SecretError
    \/ PostResponse
    \/ PostTransportError
    \/ TimeoutExpires

Spec == Init /\ [][Next]_vars

\* The timers of the calls in flight run; the remote side owes no answer
FairSpec == Spec /\ WF_vars(TimeoutExpires)

----------------------------------------------------------------------------
\* Properties

\* The invocation took the alert branch and get_secret returned
Alerting == hist.probe_returned /\ ~is_healthy /\ hist.secret_returned

\* The channel NOTIFICATION_TYPE names, slack when it is unset
Selected ==
    LET type == IF env.NOTIFICATION_TYPE = None THEN "slack" ELSE env.NOTIFICATION_TYPE
    IN  IF Lower(type) \in {"slack", "telegram"} THEN Lower(type) ELSE "unknown"

IsText(t) == t \in Seq(STRING)

\* C1 as stated: with an unhealthy probe and a fetched secret, send_notification
\* is called exactly once, exactly one channel variant is called, the one
\* NOTIFICATION_TYPE selects (slack when unset), and at most one POST is issued.
C1_ExactlyOneChannel ==
    Alerting =>
        /\ calls.send_notification = 1
        /\ calls.send_slack + calls.send_telegram = 1
        /\ hist.channel = Selected
        /\ calls.post <= 1

\* C1 amended: with an unhealthy probe and a fetched secret, send_notification
\* is called exactly once; when NOTIFICATION_TYPE (slack when unset) names slack
\* or telegram in any letter case, exactly that channel variant is called once
\* and the other never; for any other value no channel variant is called; at
\* most one POST is issued, and none unless a channel variant was called.
C1_OneAttemptSelectedChannel ==
    /\ ~Alerting => /\ calls.send_notification = 0
                    /\ calls.send_slack + calls.send_telegram = 0
                    /\ calls.post = 0
    /\ Alerting =>
        /\ calls.send_notification = 1
        /\ hist.channel = Selected
        /\ calls.send_slack = (IF Selected = "slack" THEN 1 ELSE 0)
        /\ calls.send_telegram = (IF Selected = "telegram" THEN 1 ELSE 0)
        /\ calls.post <= calls.send_slack + calls.send_telegram

\* C1 witness: NOTIFICATION_TYPE unset, unhealthy probe, secret fetched, the
\* Slack variant posted once and the invocation returned.
C1_Witness ==
    /\ pc = "done"
    /\ Alerting
    /\ env.NOTIFICATION_TYPE = None
    /\ calls.send_slack = 1
    /\ calls.post = 1

\* C2: get_secret and send_notification (and its POST) are called only after
\* the probe returned unhealthy; when the probe returns healthy the invocation
\* makes neither call and returns statusCode 200 with status "healthy".
C2_AlertOnlyAfterUnhealthy ==
    /\ (calls.get_secret > 0 \/ calls.send_notification > 0 \/ calls.post > 0)
           => (hist.probe_returned /\ ~is_healthy)
    /\ (hist.probe_returned /\ is_healthy) =>
           /\ calls.get_secret = 0
           /\ calls.send_notification = 0
           /\ calls.post = 0
           /\ pc = "done"
           /\ result.statusCode = 200
           /\ result.body.status = "healthy"

\* C2 witness: the probe returned healthy and the invocation returned.
C2_Witness == pc = "done" /\ hist.probe_returned /\ is_healthy /\ calls.probe_get > 0

C4_MissingConfigNoCalls ==
    (Falsy(env.TARGET_URL) \/ Falsy(env.SECRET_NAME)) =>
        /\ pc \in {"idle", "done"}
        /\ calls = NoCalls
        /\ pc = "done" =>
               /\ result.statusCode = 500
               /\ result.body.status = "error"
               /\ IsText(result.body.error)
               /\ result.body.error # <<>>

\* C4 witness: TARGET_URL is set, SECRET_NAME is empty, the invocation returned.
C4_Witness == pc = "done" /\ env.TARGET_URL = Url /\ env.SECRET_NAME = ""

\* C5: when the probe is unhealthy and the secret fetch fails (service error,
\* no SecretString, or SecretString that is not JSON), get_secret raises,
\* handler returns statusCode 500 with status "error", and send_notification
\* is not called and no POST is issued.
C5_SecretFailureIsError ==
    hist.secret_answer \notin {"none", "json"} =>
        /\ hist.secret_raised
        /\ ~hist.secret_returned
        /\ hist.probe_returned /\ ~is_healthy
        /\ pc = "done"
        /\ result.statusCode = 500
        /\ result.body.status = "error"
        /\ calls.send_notification = 0
        /\ calls.post = 0

\* C5 witness: the stored SecretString was not JSON and the invocation returned.
C5_Witness == pc = "done" /\ hist.secret_answer = "malformed" /\ calls.get_secret = 1

\* C6: with an unhealthy probe and a fetched secret, handler returns statusCode
\* 500 with status "unhealthy", and notification_sent is true exactly when a
\* POST was issued and answered with status 200.
C6_SentIffPost200 ==
    (pc = "done" /\ Alerting) =>
        /\ result.statusCode = 500
        /\ result.body.status = "unhealthy"
        /\ result.body.notification_sent
               <=> (calls.post = 1 /\ hist.post_response = {200})

\* C6 witness: the Slack POST was answered 201 and notification_sent is false.
C6_Witness ==
    /\ pc = "done"
    /\ Alerting
    /\ hist.channel = "slack"
    /\ hist.post_response = {201}
    /\ result.body.notification_sent = FALSE

\* C7: an invocation that ends has returned one result of one of three shapes,
\* (200, "healthy"), (500, "unhealthy", boolean notification_sent) or
\* (500, "error", error text); no exception leaves handler; statusCode is 200
\* exactly when status is "healthy"; nothing is returned before the end.
C7_WellFormedResult ==
    /\ pc # "done" => result = NoResult
    /\ pc = "done" =>
        /\ \/ /\ result.statusCode = 200
              /\ result.body.status = "healthy"
           \/ /\ result.statusCode = 500
              /\ result.body.status = "unhealthy"
              /\ result.body.notification_sent \in BOOLEAN
           \/ /\ result.statusCode = 500
              /\ result.body.status = "error"
              /\ IsText(result.body.error)
        /\ result.statusCode = 200 <=> result.body.status = "healthy"

\* C7 witness: the secret store raised a service error and handler returned.
C7_Witness ==
    /\ pc = "done"
    /\ hist.secret_answer = "ClientError"
    /\ result.body.status = "error"

\* C8: when the fetched credentials lack, or hold an empty value for, a field
\* the called notifier requires (slack_webhook_url for Slack; telegram_bot_token
\* or telegram_chat_id for Telegram), the notifier returns False and no POST is
\* issued.
C8_MissingFieldNoPost ==
    (hist.secret_returned /\ notification_config.kind = "dict") =>
        LET lacks(key) == Falsy(DictGet(notification_config, key))
            missing == \/ /\ hist.channel = "slack"
                          /\ lacks("slack_webhook_url")
                       \/ /\ hist.channel = "telegram"
                          /\ (lacks("telegram_bot_token") \/ lacks("telegram_chat_id"))
        IN  missing =>
                /\ calls.post = 0
                /\ pc = "done"
                /\ result.body.status = "unhealthy"
                /\ result.body.notification_sent = FALSE

\* C8 witness: Telegram was called with a bot token and an empty chat id.
C8_Witness ==
    /\ pc = "done"
    /\ hist.channel = "telegram"
    /\ DictGet(notification_config, "telegram_bot_token") = BotToken
    /\ DictGet(notification_config, "telegram_chat_id") = ""

\* C9 as stated: no printed line holds a credential value (the Slack webhook
\* URL, the Telegram bot token or chat id).
C9_NoCredentialInLog ==
    \A i \in 1..Len(log) : \A j \in 1..Len(log[i]) : log[i][j] \notin CredentialValues

\* C10 as stated: each blocking network call in flight (probe GET, secret
\* fetch, notification POST) was issued with a finite timeout.
C10_EveryCallHasTimeout == pc \in WaitPcs => call_timeout # {}

\* C10, its consequence: an invocation waiting on a network call eventually
\* returns a result (under FairSpec, where timers run and peers may stay silent).
C10_EventuallyReturns == (pc \in WaitPcs) ~> (pc = "done")

====
